---- MODULE Spec2Model ----
(***************************************************************************)
(* Model of app/main.py: a Flask application with one route, '/', whose    *)
(* view hello() returns a fixed JSON document, started by app.run on       *)
(* 0.0.0.0 at the port read from the environment variable PORT (default    *)
(* 8080).                                                                  *)
(*                                                                         *)
(* Texts (the value of PORT) are sequences of one-character strings, so    *)
(* that int() is computed character by character.  URL paths are           *)
(* sequences of segments: <<>> is '/', <<"static", "x">> is '/static/x'.   *)
(***************************************************************************)
EXTENDS Integers, Sequences, FiniteSets

VARIABLES
    environ,       \* os.environ's entry PORT: [has, val]
    envAtStart,    \* history: the entry PORT when the process was started
    pc,            \* "Starting", "Serving" or "Exited"
    port,          \* the variable port of __main__: <<>> until assigned, then <<n>>
    listener,      \* the bound socket: <<>> or <<[host, port]>>
    exitCode,      \* <<>> while the process runs, then <<status>>
    portReads,     \* history: how many times PORT was read
    bindAttempts,  \* history: how many times a bind was attempted
    bindError,     \* "none", "OSError" or "OverflowError"
    everServing,   \* history: the process reached Serving
    requests,      \* request id -> [stage, req, called, resp]
    accessLog      \* number of lines the server has written to its access log

vars == <<environ, envAtStart, pc, port, listener, exitCode, portReads,
          bindAttempts, bindError, everServing, requests, accessLog>>

(***************************************************************************)
(* Bounds.                                                                 *)
(***************************************************************************)
\* Requests the clients send over the lifetime of the process; all of them
\* may be in flight at once.
MaxRequests == 2

(***************************************************************************)
(* Program constants.                                                      *)
(***************************************************************************)
DefaultPort == 8080
\* socket.bind accepts ports 0..65535 and raises OverflowError otherwise.
MaxPort == 65535
Host == "0.0.0.0"
\* Ports the operating system may assign when asked to bind port 0.
EphemeralPorts == {32768, 60999}

(***************************************************************************)
(* Texts and int().                                                        *)
(***************************************************************************)
Digits == <<"0", "1", "2", "3", "4", "5", "6", "7", "8", "9">>
IsDigit(c) == \E d \in 1..10 : Digits[d] = c
DigitVal(c) == (CHOOSE d \in 1..10 : Digits[d] = c) - 1
IsSpace(c) == c = " "

RECURSIVE lstrip(_)
lstrip(s) == IF s # <<>> /\ IsSpace(Head(s)) THEN lstrip(Tail(s)) ELSE s

RECURSIVE rstrip(_)
rstrip(s) ==
    IF s # <<>> /\ IsSpace(s[Len(s)]) THEN rstrip(SubSeq(s, 1, Len(s) - 1)) ELSE s

strip(s) == rstrip(lstrip(s))

\* The digits part of an integer literal: digits, with single underscores
\* allowed between two digits.
IsDigitPart(d) ==
    /\ d # <<>>
    /\ \A i \in 1..Len(d) : IsDigit(d[i]) \/ d[i] = "_"
    /\ IsDigit(d[1]) /\ IsDigit(d[Len(d)])
    /\ \A i \in 1..(Len(d) - 1) : ~(d[i] = "_" /\ d[i + 1] = "_")

RECURSIVE DigitsValue(_, _)
DigitsValue(d, acc) ==
    IF d = <<>> THEN acc
    ELSE IF Head(d) = "_" THEN DigitsValue(Tail(d), acc)
    ELSE DigitsValue(Tail(d), 10 * acc + DigitVal(Head(d)))

ValueError == [ok |-> FALSE, n |-> 0]

\* int(x) for x an int or a str: [ok |-> TRUE, n |-> value], or ValueError.
int_(x) ==
    IF x.kind = "int" THEN [ok |-> TRUE, n |-> x.n]
    ELSE LET t == strip(x.s)
             signed == t # <<>> /\ Head(t) \in {"+", "-"}
             d == IF signed THEN Tail(t) ELSE t
         IN  IF ~IsDigitPart(d) THEN ValueError
             ELSE [ok |-> TRUE,
                   n |-> IF signed /\ Head(t) = "-"
                         THEN 0 - DigitsValue(d, 0) ELSE DigitsValue(d, 0)]

(***************************************************************************)
(* The environment.                                                        *)
(***************************************************************************)
Unset == [has |-> FALSE, val |-> <<>>]
SetTo(text) == [has |-> TRUE, val |-> text]

\* The values PORT may have when the process is started.
EnvValues ==
    {Unset,
     SetTo(<<"9", "0", "9", "0">>),
     SetTo(<<"8", "0", "8", "0">>),
     SetTo(<<"0">>),
     SetTo(<<" ", "9", "0", " ">>),
     SetTo(<<"7", "0", "0", "0", "0">>),
     SetTo(<<"-", "1">>),
     SetTo(<<"a", "b", "c">>),
     SetTo(<<"9", " ", "0">>),
     SetTo(<<>>)}

\* The values PORT may be set to while the process runs.
EnvLater == {SetTo(<<"7", "0", "0", "0">>)}

\* A variant that looks up a name the environment never holds.
environ_get_wrong_name(env, default) == [kind |-> "int", s |-> <<>>, n |-> default]

\* os.environ.get(name, default)
environ_get(env, default) ==
    IF env.has THEN [kind |-> "str", s |-> env.val, n |-> 0]
    ELSE [kind |-> "int", s |-> <<>>, n |-> default]

(***************************************************************************)
(* Requests, the URL map and the view.                                     *)
(***************************************************************************)
Root == <<>>

Req(m, p, q, h, b) == [method |-> m, path |-> p, query |-> q, headers |-> h, body |-> b]

\* The requests a client may send.
Requests ==
    {Req("GET", Root, "", "", ""),
     Req("GET", Root, "a=1", "X-Test: 1", "payload"),
     Req("HEAD", Root, "", "", ""),
     Req("OPTIONS", Root, "", "", ""),
     Req("POST", Root, "", "", "payload"),
     Req("PUT", Root, "", "", "payload"),
     Req("DELETE", Root, "", "", ""),
     Req("GET", <<"nonexistent">>, "", "", ""),
     Req("POST", <<"nonexistent">>, "", "", "payload"),
     Req("GET", <<"static", "x">>, "", "", ""),
     Req("POST", <<"static", "x">>, "", "", "payload"),
     Req("OPTIONS", <<"static", "x">>, "", "", "")}

NoRequest == Req("", Root, "", "", "")

Body(k, items) == [kind |-> k, items |-> items]
Response(st, ct, b) == [status |-> st, ctype |-> ct, body |-> b]
NoResponse == Response(0, "", Body("empty", <<>>))

\* A variant that also registers POST.
RouteMethods_with_post(given) == given \cup {"HEAD", "OPTIONS", "POST"}

\* The methods a route answers: those given to route(), plus HEAD when GET is
\* among them, plus OPTIONS (automatic options).
RouteMethods(given) ==
    given \cup (IF "GET" \in given THEN {"HEAD"} ELSE {}) \cup {"OPTIONS"}

\* route('/') is given no methods: the default is GET.
DefaultMethods == {"GET"}

\* Files under the application's static folder: the repository has none.
StaticFiles == {}

\* A variant with a catch-all rule bound to hello.
UrlMap_catch_all ==
    {[pattern |-> <<"<path>">>, endpoint |-> "hello", methods |-> {"GET", "HEAD", "OPTIONS"}],
     [pattern |-> Root, endpoint |-> "hello", methods |-> {"GET", "HEAD", "OPTIONS"}]}

\* app.url_map after the module is loaded: the static rule that Flask(__name__)
\* registers, and the rule of @app.route('/').  A pattern is a sequence of
\* segments; "<path>" as its last segment matches one or more segments.
UrlMap ==
    {[pattern |-> <<"static", "<path>">>, endpoint |-> "static",
      methods |-> RouteMethods(DefaultMethods)],
     [pattern |-> Root, endpoint |-> "hello",
      methods |-> RouteMethods(DefaultMethods)]}

PatternMatches(pat, path) ==
    IF pat # <<>> /\ pat[Len(pat)] = "<path>"
    THEN /\ Len(path) >= Len(pat)
         /\ SubSeq(path, 1, Len(pat) - 1) = SubSeq(pat, 1, Len(pat) - 1)
    ELSE path = pat

\* The URL map's match of a request: the endpoint, or the routing error.
Match(r) ==
    LET byPath == {u \in UrlMap : PatternMatches(u.pattern, r.path)}
        byMethod == {u \in byPath : r.method \in u.methods}
    IN  IF byPath = {} THEN [error |-> 404, endpoint |-> ""]
        ELSE IF byMethod = {} THEN [error |-> 405, endpoint |-> ""]
        ELSE [error |-> 0, endpoint |-> (CHOOSE u \in byMethod : TRUE).endpoint]

\* A variant with another version string.
hello_other_version == <<<<"message", "Hello, Candidate">>, <<"version", "1.0.1">>>>

\* The dict hello() builds, as its items.
hello == <<<<"message", "Hello, Candidate">>, <<"version", "1.0.0">>>>

\* jsonify(d): a 200 response of type application/json whose body is d as JSON.
jsonify(d) == Response(200, "application/json", Body("json", d))

\* The error page of a routing error.
ErrorResponse(code) ==
    Response(code, "text/html", Body("html", <<<<"error", "page">>>>))

\* What the application answers to a request: [called, resp], where called
\* says whether the view hello() ran.
FullDispatch(r) ==
    LET m == Match(r)
    IN  IF m.error # 0 THEN [called |-> FALSE, resp |-> ErrorResponse(m.error)]
        ELSE IF r.method = "OPTIONS"
        THEN [called |-> FALSE, resp |-> Response(200, "text/html", Body("empty", <<>>))]
        ELSE IF m.endpoint = "hello"
        THEN [called |-> TRUE,
              resp |-> IF r.method = "HEAD"
                       THEN [jsonify(hello) EXCEPT !.body = Body("empty", <<>>)]
                       ELSE jsonify(hello)]
        ELSE IF r.path[Len(r.path)] \in StaticFiles
        THEN [called |-> FALSE,
              resp |-> Response(200, "application/octet-stream", Body("file", <<>>))]
        ELSE [called |-> FALSE, resp |-> ErrorResponse(404)]

(***************************************************************************)
(* The process.                                                            *)
(***************************************************************************)
RequestIds == 1..MaxRequests

Idle == [stage |-> "idle", req |-> NoRequest, called |-> FALSE, resp |-> NoResponse]

Init ==
    /\ environ \in EnvValues
    /\ envAtStart = environ
    /\ pc = "Starting"
    /\ port = <<>>
    /\ listener = <<>>
    /\ exitCode = <<>>
    /\ portReads = 0
    /\ bindAttempts = 0
    /\ bindError = "none"
    /\ everServing = FALSE
    /\ requests = [i \in RequestIds |-> Idle]
    /\ accessLog = 0

\* A variant that falls back to the default port when PORT is no integer.
ReadPort_fallback ==
    /\ pc = "Starting"
    /\ port = <<>>
    /\ portReads' = portReads + 1
    /\ LET r == int_(environ_get(environ, DefaultPort))
       IN  port' = IF r.ok THEN <<r.n>> ELSE <<DefaultPort>>
    /\ UNCHANGED <<environ, envAtStart, pc, exitCode, listener, bindAttempts,
                   bindError, everServing, requests, accessLog>>

\* port = int(os.environ.get('PORT', 8080)); an uncaught ValueError ends the
\* process with status 1.
ReadPort ==
    /\ pc = "Starting"
    /\ port = <<>>
    /\ portReads' = portReads + 1
    /\ LET r == int_(environ_get(environ, DefaultPort))
       IN  IF r.ok
           THEN /\ port' = <<r.n>>
                /\ UNCHANGED <<pc, exitCode>>
           ELSE /\ pc' = "Exited"
                /\ exitCode' = <<1>>
                /\ UNCHANGED port
    /\ UNCHANGED <<environ, envAtStart, listener, bindAttempts, bindError,
                   everServing, requests, accessLog>>

\* The ports a bind of port n may end on: n itself, or, for 0, a port the
\* operating system picks.
BoundPorts(n) == IF n = 0 THEN EphemeralPorts ELSE {n}

\* A variant that reads PORT again when it binds.
Run_reread ==
    /\ pc = "Starting"
    /\ port # <<>>
    /\ bindAttempts' = bindAttempts + 1
    /\ LET r == int_(environ_get(environ, DefaultPort))
       IN  /\ listener' = <<[host |-> Host, port |-> r.n]>>
           /\ pc' = "Serving"
           /\ everServing' = TRUE
    /\ UNCHANGED <<environ, envAtStart, port, portReads, bindError, exitCode,
                   requests, accessLog>>

\* A variant that tries again after a failed bind.
Run_retry ==
    /\ pc = "Starting"
    /\ port # <<>>
    /\ bindAttempts < 3
    /\ bindAttempts' = bindAttempts + 1
    /\ \/ /\ bindError' = "OSError"
          /\ UNCHANGED <<pc, exitCode, listener, everServing>>
       \/ /\ listener' = <<[host |-> Host, port |-> port[1]]>>
          /\ pc' = "Serving"
          /\ everServing' = TRUE
          /\ UNCHANGED <<bindError, exitCode>>
    /\ UNCHANGED <<environ, envAtStart, port, portReads, requests, accessLog>>

\* app.run(host='0.0.0.0', port=port): the server binds once.  A port out of
\* range raises OverflowError, a port that cannot be bound OSError; either
\* ends the process with status 1.
Run ==
    /\ pc = "Starting"
    /\ port # <<>>
    /\ bindAttempts' = bindAttempts + 1
    /\ \/ /\ port[1] \notin 0..MaxPort
          /\ bindError' = "OverflowError"
          /\ pc' = "Exited"
          /\ exitCode' = <<1>>
          /\ UNCHANGED <<listener, everServing>>
       \/ /\ port[1] \in 0..MaxPort
          /\ bindError' = "OSError"
          /\ pc' = "Exited"
          /\ exitCode' = <<1>>
          /\ UNCHANGED <<listener, everServing>>
       \/ /\ port[1] \in 0..MaxPort
          /\ \E q \in BoundPorts(port[1]) :
                listener' = <<[host |-> Host, port |-> q]>>
          /\ pc' = "Serving"
          /\ everServing' = TRUE
          /\ UNCHANGED <<bindError, exitCode>>
    /\ UNCHANGED <<environ, envAtStart, port, portReads, requests, accessLog>>

\* The environment changes after the port was read (app.run loads .env and
\* .flaskenv files; any later putenv or unsetenv).
EnvChange ==
    /\ pc # "Exited"
    /\ port # <<>>
    /\ \E e \in EnvLater : environ' = e /\ e # environ
    /\ UNCHANGED <<envAtStart, pc, port, listener, exitCode, portReads,
                   bindAttempts, bindError, everServing, requests, accessLog>>

\* A variant that accepts connections before the listener is bound.
CanAccept_early == pc # "Exited"

\* The server accepts connections once app.run has bound the listener.
CanAccept == pc = "Serving"

\* The server accepts a request and starts a handler thread for it.
Accept(i) ==
    /\ CanAccept
    /\ requests[i].stage = "idle"
    /\ i > 1 => requests[i - 1].stage # "idle"
    /\ \E r \in Requests :
          requests' = [requests EXCEPT ![i] = [Idle EXCEPT !.stage = "accepted", !.req = r]]
    /\ UNCHANGED <<environ, envAtStart, pc, port, listener, exitCode, portReads,
                   bindAttempts, bindError, everServing, accessLog>>

\* A variant whose handlers build their response in one shared object: every
\* response built and not yet sent becomes the one built last.
Dispatch_shared(i) ==
    /\ pc = "Serving"
    /\ requests[i].stage = "accepted"
    /\ LET d == FullDispatch(requests[i].req)
       IN  requests' =
             [j \in RequestIds |->
                IF j = i
                THEN [requests[j] EXCEPT !.stage = "responded", !.called = d.called,
                                         !.resp = d.resp]
                ELSE IF requests[j].stage = "responded"
                THEN [requests[j] EXCEPT !.resp = d.resp]
                ELSE requests[j]]
    /\ UNCHANGED <<environ, envAtStart, pc, port, listener, exitCode, portReads,
                   bindAttempts, bindError, everServing, accessLog>>

\* A variant whose view writes a log line of its own.
Dispatch_logging(i) ==
    /\ pc = "Serving"
    /\ requests[i].stage = "accepted"
    /\ LET d == FullDispatch(requests[i].req)
       IN  requests' = [requests EXCEPT ![i].stage = "responded",
                                        ![i].called = d.called,
                                        ![i].resp = d.resp]
    /\ accessLog' = accessLog + (IF requests'[i].called THEN 1 ELSE 0)
    /\ UNCHANGED <<environ, envAtStart, pc, port, listener, exitCode, portReads,
                   bindAttempts, bindError, everServing>>

\* The handler thread of request i routes the request and runs the view.
Dispatch(i) ==
    /\ pc = "Serving"
    /\ requests[i].stage = "accepted"
    /\ LET d == FullDispatch(requests[i].req)
       IN  requests' = [requests EXCEPT ![i].stage = "responded",
                                        ![i].called = d.called,
                                        ![i].resp = d.resp]
    /\ UNCHANGED <<environ, envAtStart, pc, port, listener, exitCode, portReads,
                   bindAttempts, bindError, everServing, accessLog>>

\* The server sends the response of request i and writes its access-log line.
Finish(i) ==
    /\ pc = "Serving"
    /\ requests[i].stage = "responded"
    /\ requests' = [requests EXCEPT ![i].stage = "finished"]
    /\ accessLog' = accessLog + 1
    /\ UNCHANGED <<environ, envAtStart, pc, port, listener, exitCode, portReads,
                   bindAttempts, bindError, everServing>>

\* The process is interrupted while serving: the server closes its socket and
\* app.run returns.
Terminate ==
    /\ pc = "Serving"
    /\ pc' = "Exited"
    /\ listener' = <<>>
    /\ exitCode' = <<0>>
    /\ UNCHANGED <<environ, envAtStart, port, portReads, bindAttempts, bindError,
                   everServing, requests, accessLog>>

Next ==
    \/ ReadPort
    \/ Run
    \/ EnvChange
    \/ \E i \in RequestIds : Accept(i)
    \/ \E i \in RequestIds : Dispatch(i)
    \/ \E i \in RequestIds : Finish(i)
    \/ Terminate

Spec == Init /\ [][Next]_vars

(***************************************************************************)
(* Properties.                                                             *)
(***************************************************************************)
\* The greeting as a JSON object: a set of key-value pairs.
GreetingObject == {<<"message", "Hello, Candidate">>, <<"version", "1.0.0">>}

JsonObject(b) == {b.items[k] : k \in 1..Len(b.items)}

HasGreetingBody(resp) ==
    resp.body.kind = "json" /\ JsonObject(resp.body) = GreetingObject

IsGreeting(resp) ==
    resp.status = 200 /\ resp.ctype = "application/json" /\ HasGreetingBody(resp)

Answered(i) == requests[i].stage \in {"responded", "finished"}

IsGetRoot(r) == r.method = "GET" /\ r.path = Root

RECURSIVE NatText(_)
NatText(n) ==
    IF n < 10 THEN <<Digits[n + 1]>> ELSE NatText(n \div 10) \o <<Digits[(n % 10) + 1]>>

\* The decimal text of the integer n.
DecimalText(n) == IF n < 0 THEN <<"-">> \o NatText(0 - n) ELSE NatText(n)

\* The integers whose decimal text PORT is given as.
PortNumbers == {0 - 1, 0, 90, 8080, 9090, 70000}

\* Texts int() rejects.
NonIntegerTexts == {<<"a", "b", "c">>, <<"9", " ", "0">>, <<>>}

\* C1: every GET request to '/' is answered, and only by a serving process,
\* with status 200, Content-Type application/json and the greeting object as
\* body, whatever its query string, headers and body and however many
\* requests were answered before.
C1_GetRootIsGreeting ==
    \A i \in RequestIds :
        Answered(i) /\ IsGetRoot(requests[i].req)
            => everServing /\ IsGreeting(requests[i].resp)

\* C1 witness: a GET / with a query string, a header and a body got the
\* greeting after another request was finished.
C1_Witness ==
    \E i, j \in RequestIds :
        /\ i # j
        /\ requests[j].stage = "finished"
        /\ requests[i].stage = "responded"
        /\ IsGetRoot(requests[i].req)
        /\ requests[i].req.query # "" /\ requests[i].req.body # ""
        /\ IsGreeting(requests[i].resp)

C3_DefaultPortReadOnce ==
    /\ [](~envAtStart.has /\ listener # <<>>
             => listener[1] = [host |-> Host, port |-> DefaultPort])
    /\ [](portReads <= 1)
    /\ [](pc = "Serving" => listener # <<>>)
    /\ [][port # <<>> => port' = port]_vars
    /\ [][listener # <<>> /\ listener' # <<>> => listener' = listener]_vars

\* C3 witness: started without PORT, the process serves on 8080 after PORT was
\* set in its environment.
C3_Witness ==
    /\ ~envAtStart.has
    /\ environ.has
    /\ pc = "Serving"
    /\ listener = <<[host |-> Host, port |-> DefaultPort]>>

\* C4: under every interleaving of the handlers' steps all GET requests to
\* '/' get the same, correct response; a step of one handler leaves every
\* other request untouched, and a response once built is never altered.
C4_ConcurrentRequests ==
    /\ [](\A i, j \in RequestIds :
             /\ Answered(i) /\ IsGetRoot(requests[i].req)
             /\ Answered(j) /\ IsGetRoot(requests[j].req)
             => requests[i].resp = requests[j].resp /\ IsGreeting(requests[i].resp))
    /\ [][\A i, j \in RequestIds :
             i # j /\ requests'[i] # requests[i] => requests'[j] = requests[j]]_vars
    /\ [][\A i \in RequestIds :
             Answered(i) => requests'[i].resp = requests[i].resp]_vars

\* C4 witness: two GET / requests are in flight at once, each with its
\* response built and not yet sent, and both responses are the greeting.
C4_Witness ==
    \E i, j \in RequestIds :
        /\ i # j
        /\ requests[i].stage = "responded" /\ IsGetRoot(requests[i].req)
        /\ requests[j].stage = "responded" /\ IsGetRoot(requests[j].req)
        /\ IsGreeting(requests[i].resp) /\ IsGreeting(requests[j].resp)

\* C5 as stated: a request to any path other than '/' is answered 404 and
\* never with the greeting body.
C5_Original ==
    \A i \in RequestIds :
        Answered(i) /\ requests[i].req.path # Root
            => requests[i].resp.status = 404 /\ ~HasGreetingBody(requests[i].resp)

\* C5 amended: a request to a path other than '/' never runs hello() and never
\* gets the greeting body; outside /static/ it is answered 404 whatever its
\* method; under /static/ (the rule Flask registers by itself, with no file to
\* serve) GET and HEAD are answered 404, OPTIONS 200 with an empty body and
\* every other method 405.
C5_OtherPaths ==
    \A i \in RequestIds :
        LET r == requests[i].req
            a == requests[i].resp
        IN  Answered(i) /\ r.path # Root =>
                /\ ~requests[i].called
                /\ ~HasGreetingBody(a)
                /\ r.path[1] # "static" => a.status = 404
                /\ r.path[1] = "static" =>
                      /\ r.method \in {"GET", "HEAD"} => a.status = 404
                      /\ r.method = "OPTIONS" => a.status = 200 /\ a.body.kind = "empty"
                      /\ r.method \notin {"GET", "HEAD", "OPTIONS"} => a.status = 405

\* C5 witness: GET /nonexistent was answered 404.
C5_Witness ==
    \E i \in RequestIds :
        /\ Answered(i)
        /\ requests[i].req.method = "GET"
        /\ requests[i].req.path = <<"nonexistent">>
        /\ requests[i].resp.status = 404

\* C6: when the bind fails the process has exited with a non-zero status, it
\* never served, no request was accepted, and the bind was attempted exactly
\* once.
C6_BindFailureIsFatal ==
    bindError # "none" =>
        /\ pc = "Exited"
        /\ exitCode # <<>> /\ exitCode[1] # 0
        /\ ~everServing
        /\ listener = <<>>
        /\ bindAttempts = 1
        /\ \A i \in RequestIds : requests[i].stage = "idle"

\* C6 witness: port 9090 could not be bound and the process exited with 1.
C6_Witness ==
    /\ port = <<9090>>
    /\ bindError = "OSError"
    /\ pc = "Exited"
    /\ exitCode = <<1>>

\* A step of the handling of a GET request to '/'.
HandlesGetRoot(i) ==
    requests'[i] # requests[i] /\ IsGetRoot(requests'[i].req)

\* C7 as stated: handling a GET request to '/' leaves the whole process state
\* unchanged and writes no log output.
C7_Original ==
    [][\A i \in RequestIds :
          HandlesGetRoot(i)
              => UNCHANGED <<environ, pc, port, listener, exitCode, accessLog>>]_vars

\* C7 amended: handling a GET request to '/' leaves the configured port, the
\* listener, the environment and the lifecycle state unchanged, and hello()
\* writes no log; the server writes exactly one access-log line when it
\* finishes the request.
C7_HandlerEffects ==
    [][\A i \in RequestIds :
          HandlesGetRoot(i) =>
              /\ UNCHANGED <<environ, pc, port, listener, exitCode>>
              /\ accessLog' =
                   accessLog + (IF requests'[i].stage = "finished" THEN 1 ELSE 0)]_vars

\* C7 witness: a GET / was finished by a serving process, and the log has a
\* line.
C7_Witness ==
    /\ pc = "Serving"
    /\ accessLog >= 1
    /\ \E i \in RequestIds :
          requests[i].stage = "finished" /\ IsGetRoot(requests[i].req)

\* C8: the process is Starting, Serving or terminated; while Starting nothing
\* is bound and no request is accepted or answered; Starting becomes Serving
\* only by the one successful bind; Serving never returns to Starting and
\* never binds again; requests are handled only while Serving; a terminated
\* process stays terminated.
C8_Lifecycle ==
    /\ [](pc \in {"Starting", "Serving", "Exited"})
    /\ [](pc = "Starting" =>
             /\ listener = <<>>
             /\ accessLog = 0
             /\ \A i \in RequestIds : requests[i].stage = "idle")
    /\ [][pc = "Starting" /\ pc' = "Serving" => listener' # <<>> /\ bindAttempts' = 1]_vars
    /\ [][pc = "Serving" =>
             /\ pc' \in {"Serving", "Exited"}
             /\ bindAttempts' = bindAttempts
             /\ pc' = "Serving" => listener' = listener]_vars
    /\ [][requests' # requests => pc = "Serving" /\ pc' = "Serving"]_vars
    /\ [][pc = "Exited" => pc' = "Exited"]_vars

\* C8 witness: a serving process has finished a request.
C8_Witness ==
    /\ pc = "Serving"
    /\ bindAttempts = 1
    /\ \E i \in RequestIds : requests[i].stage = "finished"

\* C9: when PORT is set to a text int() rejects, the variable port is never
\* assigned (no fallback to 8080), no bind is attempted, the process never
\* serves or accepts a request, and once PORT was read the process has exited
\* with a non-zero status.
C9_InvalidPortIsFatal ==
    envAtStart.has /\ envAtStart.val \in NonIntegerTexts =>
        /\ port = <<>>
        /\ bindAttempts = 0
        /\ listener = <<>>
        /\ ~everServing /\ pc # "Serving"
        /\ \A i \in RequestIds : requests[i].stage = "idle"
        /\ portReads > 0 => pc = "Exited" /\ exitCode # <<>> /\ exitCode[1] # 0

\* C9 witness: started with PORT set to the empty string, the process exited
\* with 1 after reading it.
C9_Witness ==
    /\ envAtStart = SetTo(<<>>)
    /\ portReads = 1
    /\ pc = "Exited"
    /\ exitCode = <<1>>

\* C10: a request to '/' with a method other than GET, HEAD and OPTIONS is
\* answered 405, without running hello() and without the greeting.
C10_MethodNotAllowed ==
    \A i \in RequestIds :
        /\ Answered(i)
        /\ requests[i].req.path = Root
        /\ requests[i].req.method \notin {"GET", "HEAD", "OPTIONS"}
        => /\ requests[i].resp.status = 405
           /\ ~requests[i].called
           /\ ~IsGreeting(requests[i].resp)

\* C10 witness: POST / was answered 405.
C10_Witness ==
    \E i \in RequestIds :
        /\ Answered(i)
        /\ requests[i].req.path = Root
        /\ requests[i].req.method = "POST"
        /\ requests[i].resp.status = 405

====
